---- MODULE Spec2Model ----
(***************************************************************************)
(* HDR.py: bracketed-exposure capture through the PySpin camera API         *)
(* followed by HDR fusion of the frames found in the output directory.     *)
(* The model follows the script statement by statement: the module-level   *)
(* set-up, main(), run_single_camera(), acquire_images() with its calls    *)
(* of configure_exposure(), reset_exposure() and create_HDR().             *)
(* Exposure times are microseconds; the float arguments and the float      *)
(* node values are drawn from integer-valued floats.                       *)
(***************************************************************************)
EXTENDS Integers, Sequences, FiniteSets, TLC

\* ------------------------------------------------------------------ bounds
\* largest num_images explored
MaxImages == 3
\* largest number of vendor calls that raise SpinnakerException in one run
MaxFaults == 1

\* ------------------------------------------------------- small arithmetic
Min2(x, y) == IF x <= y THEN x ELSE y
Max2(x, y) == IF x >= y THEN x ELSE y

RECURSIVE Log2(_)
\* floor(log2(v)) for v >= 1
Log2(v) == IF v < 2 THEN 0 ELSE 1 + Log2(v \div 2)

RECURSIVE Pow2(_)
Pow2(n) == IF n = 0 THEN 1 ELSE 2 * Pow2(n - 1)

\* ---------------------------------------------- arbitrary-size naturals
\* little-endian digit sequences in base 1000, <<>> is zero; used for the
\* real-valued comparison e^N <= min^(N-k) * max^k, which exceeds 32 bits.
RECURSIVE BigFromInt(_)
BigFromInt(n) == IF n = 0 THEN <<>> ELSE <<n % 1000>> \o BigFromInt(n \div 1000)

RECURSIVE BigMulCarry(_, _, _)
BigMulCarry(x, m, carry) ==
    IF x = <<>> THEN BigFromInt(carry)
    ELSE LET t == Head(x) * m + carry
         IN  <<t % 1000>> \o BigMulCarry(Tail(x), m, t \div 1000)

\* x * m for a small multiplier 0 < m < 2000000
BigMul(x, m) == BigMulCarry(x, m, 0)

RECURSIVE BigMulPow(_, _, _)
\* x * m^n
BigMulPow(x, m, n) == IF n = 0 THEN x ELSE BigMulPow(BigMul(x, m), m, n - 1)

RECURSIVE BigCmpFrom(_, _, _)
BigCmpFrom(x, y, j) ==
    IF j = 0 THEN TRUE
    ELSE IF x[j] # y[j] THEN x[j] < y[j]
    ELSE BigCmpFrom(x, y, j - 1)

\* x <= y
BigLeq(x, y) ==
    IF Len(x) # Len(y) THEN Len(x) < Len(y) ELSE BigCmpFrom(x, y, Len(x))

\* --------------------------------------------------------- log_map_0_1
\* log_map_0_1(x, min, max) = min * math.pow(max / min, x) with x = k/n,
\* followed by int() (line 143).  The real value v satisfies
\* v^n = min^(n-k) * max^k, so int(v) is the largest e with
\* e^n <= min^(n-k) * max^k.
RECURSIVE RootSearch(_, _, _, _)
RootSearch(lo, hi, n, P) ==
    IF lo >= hi THEN lo
    ELSE LET mid == (lo + hi + 1) \div 2
         IN  IF BigLeq(BigMulPow(<<1>>, mid, n), P)
             THEN RootSearch(mid, hi, n, P)
             ELSE RootSearch(lo, mid - 1, n, P)

TargetPower(k, n, mn, mx) == BigMulPow(BigMulPow(<<1>>, mn, n - k), mx, k)

FloorLogMap(k, n, mn, mx) ==
    RootSearch(Min2(mn, mx), Max2(mn, mx), n, TargetPower(k, n, mn, mx))

IsExactLogMap(k, n, mn, mx) ==
    BigMulPow(<<1>>, FloorLogMap(k, n, mn, mx), n) = TargetPower(k, n, mn, mx)

\* x = 1.0: pow(r, 1.0) = r, so the value is the double product
\* fl(min * fl(max / min)).  With e = floor(log2(max/min)) the quotient has
\* the 53-bit significand M = round(max * 2^(52-e) / min); the product
\* min * M misses max * 2^(52-e) by the remainder of that division and is
\* rounded to the spacing of doubles near max.  The product falls below
\* max, and int() then yields max - 1, exactly when the quotient was
\* rounded down by more than half that spacing.
RECURSIVE QuotExp(_, _)
\* floor(log2(mx / mn))
QuotExp(mn, mx) ==
    IF mx >= mn THEN (IF 2 * mn <= mx THEN 1 + QuotExp(2 * mn, mx) ELSE 0)
    ELSE QuotExp(mn, 2 * mx) - 1

RECURSIVE ShiftMod(_, _, _)
\* (v * 2^k) mod m
ShiftMod(v, k, m) == IF k = 0 THEN v % m ELSE ShiftMod((2 * v) % m, k - 1, m)

IntLogMapAtOne(mn, mx) ==
    LET e    == QuotExp(mn, mx)
        rem  == ShiftMod(mx % mn, 52 - e, mn)
        g    == Log2(mx) - e - (IF mx = Pow2(Log2(mx)) THEN 1 ELSE 0)
    IN  IF rem # 0 /\ 2 * rem < mn /\ g < 30 /\ 2 * rem > Pow2(g)
        THEN mx - 1 ELSE mx

\* the values int(log_map_0_1(k/n, mn, mx)) can take.  For x < 1 the double
\* differs from the real value by rounding only, which changes int() only
\* when the real value is itself an integer.
IntLogMap(k, n, mn, mx) ==
    IF k = n THEN {IntLogMapAtOne(mn, mx)}
    ELSE IF IsExactLogMap(k, n, mn, mx)
         THEN {FloorLogMap(k, n, mn, mx) - 1, FloorLogMap(k, n, mn, mx)}
         ELSE {FloorLogMap(k, n, mn, mx)}


\* ------------------------------------------------- Python values and text
\* the value configure_exposure returns: an int (line 152) or False
\* (lines 115, 134, 158)
PyInt(n) == [tag |-> "int", v |-> n]
PyFalse == [tag |-> "bool", v |-> 0]

Digits == <<"0", "1", "2", "3", "4", "5", "6", "7", "8", "9">>

RECURSIVE StrInt(_)
\* str() of a non-negative int: its decimal digits
StrInt(n) ==
    IF n < 10 THEN <<Digits[n + 1]>>
    ELSE StrInt(n \div 10) \o <<Digits[(n % 10) + 1]>>

\* how an f-string renders the value
PyStr(val) ==
    IF val.tag = "int" THEN StrInt(val.v)
    ELSE IF val.v = 1 THEN <<"T", "r", "u", "e">>
    ELSE <<"F", "a", "l", "s", "e">>

\* f'exp_{exposure}_us.jpg' (line 311)
FileName(val) ==
    <<"e", "x", "p", "_">> \o PyStr(val) \o <<"_", "u", "s", ".", "j", "p", "g">>

RECURSIVE SplitFrom(_, _, _)
SplitFrom(s, sep, cur) ==
    IF s = <<>> THEN <<cur>>
    ELSE IF Head(s) = sep THEN <<cur>> \o SplitFrom(Tail(s), sep, <<>>)
    ELSE SplitFrom(Tail(s), sep, Append(cur, Head(s)))

\* str.split(sep)
Split(s, sep) == SplitFrom(s, sep, <<>>)

IsDigit(c) == \E d \in 1..10 : Digits[d] = c
DigitVal(c) == (CHOOSE d \in 1..10 : Digits[d] = c) - 1

RECURSIVE DecVal(_, _)
DecVal(tok, acc) ==
    IF tok = <<>> THEN acc ELSE DecVal(Tail(tok), 10 * acc + DigitVal(Head(tok)))

\* conversion to numpy float32 (24-bit significand, round to nearest even)
Float32(n) ==
    IF n < 16777216 THEN n
    ELSE LET s == Pow2(Log2(n) - 23)
             q == n \div s
             r == n % s
         IN  IF 2 * r < s \/ (2 * r = s /\ q % 2 = 0) THEN q * s ELSE (q + 1) * s

\* float(i.split("_")[1].split(".")[0]) as float32 (line 427); ok is FALSE
\* where the expression raises (IndexError, ValueError)
ParseExposure(name) ==
    LET parts == Split(name, "_")
    IN  IF Len(parts) < 2 THEN [ok |-> FALSE, val |-> 0]
        ELSE LET tok == Split(parts[2], ".")[1]
             IN  IF tok # <<>> /\ \A j \in 1..Len(tok) : IsDigit(tok[j])
                 THEN [ok |-> TRUE, val |-> Float32(DecVal(tok, 0))]
                 ELSE [ok |-> FALSE, val |-> 0]


\* ------------------------------------------------------------------ inputs
\* --exp_min / --exp_max pairs: the defaults (lines 54-55), the pair of the
\* documented scenario, a narrow range, a minimum above the hardware
\* maximum of the first camera below, and a maximum above one second
UserBounds ==
    {<<30, 65000>>, <<100, 10000>>, <<100, 101>>, <<20000, 65000>>,
     <<100, 1500000>>}

\* ExposureTime.GetMin() / GetMax() of the attached camera
CameraLimits == {<<10, 15000>>, <<8, 3000000>>}

\* node access modes (PySpin.RW, RO, NA)
AccessModes == {"RW", "RO", "NA"}

\* a file left in images/<dirname> by an earlier session
OldFile == <<"e", "x", "p", "_", "5", "0", "0", "_", "u", "s", ".", "j", "p", "g">>

NoFiles == [n \in {} |-> 0]

VARIABLES
    pc,          \* position in the script
    args,        \* parsed command line (lines 49-57)
    files,       \* images/<dirname>: file name -> content
    num_cameras, \* cam_list.GetSize()
    node,        \* the camera's node access modes and exposure limits
    cam,         \* camera state seen through the SDK
    i,           \* loop index of acquire_images
    timeout,     \* GetNextImage timeout in ms (line 270)
    exposure,    \* return value of configure_exposure (line 293)
    acq_result,  \* result in acquire_images
    run_result,  \* result in run_single_camera / main
    exit_status, \* process exit status, -1 while running
    faults,      \* vendor calls that raised so far
    \* ---- observation of the run
    fs_ops,      \* file operations performed in images/<dirname>
    set_log,     \* index -> exposure computed (line 143) and passed to SetValue
    requests,    \* GetNextImage calls issued for the current index
    unreleased,  \* images obtained from the device and not Release()d
    saved,       \* index -> file name written and sensor exposure at capture
    attempted,   \* indices whose loop body started
    failed,      \* indices at which a next-frame call raised
    phases,      \* calls made so far: "end_acq", "reset", "deinit", "fusion"
    reset_status,\* outcome of reset_exposure
    fusion_input \* what create_HDR read from the directory

vars == <<pc, args, files, num_cameras, node, cam, i, timeout, exposure,
          acq_result, run_result, exit_status, faults, fs_ops, set_log,
          requests, unreleased, saved, attempted, failed, phases,
          reset_status, fusion_input>>

obs == <<fs_ops, set_log, requests, unreleased, saved, attempted, failed,
         phases, reset_status, fusion_input>>

NUM_IMAGES == args.num_images

Init ==
    /\ pc = "start"
    /\ args \in [num_images : 1..MaxImages, bounds : UserBounds]
    /\ files \in {NoFiles, [n \in {OldFile} |-> [kind |-> "old", idx |-> 0]]}
    /\ num_cameras \in {0, 1}
    /\ node = [ExposureAuto |-> "NA", ExposureTime |-> "NA",
               AcquisitionMode |-> "NA", exp_min |-> 1, exp_max |-> 1]
    /\ cam = [initialized |-> FALSE, acquiring |-> FALSE,
              ExposureAuto |-> "Continuous", ExposureTime |-> 1,
              GainAuto |-> "Continuous"]
    /\ i = 0
    /\ timeout = 0
    /\ exposure = PyFalse
    /\ acq_result = TRUE
    /\ run_result = TRUE
    /\ exit_status = -1
    /\ faults = 0
    /\ fs_ops = {}
    /\ set_log = NoFiles
    /\ requests = 0
    /\ unreleased = 0
    /\ saved = NoFiles
    /\ attempted = {}
    /\ failed = {}
    /\ phases = {}
    /\ reset_status = "none"
    /\ fusion_input = {}

\* a vendor call may raise PySpin.SpinnakerException
MayRaise == faults < MaxFaults

\* ------------------------------------------------------- start of the run
\* lines 59-63 and 467-471: create and enter images/<dirname>
MkOutputDir ==
    /\ pc = "start"
    /\ pc' = "wipe"
    /\ UNCHANGED <<args, files, num_cameras, node, cam, i, timeout, exposure,
                   acq_result, run_result, exit_status, faults, obs>>

\* lines 473-475: remove every file of the directory
WipeDirectory ==
    /\ pc = "wipe"
    /\ files' = NoFiles
    /\ fs_ops' = fs_ops \cup {[op |-> "remove", name |-> n] : n \in DOMAIN files}
    /\ pc' = "enumerate"
    /\ UNCHANGED <<args, num_cameras, node, cam, i, timeout, exposure,
                   acq_result, run_result, exit_status, faults, set_log,
                   requests, unreleased, saved, attempted, failed, phases,
                   reset_status, fusion_input>>

\* main(), lines 376-405: enumerate the cameras; with none, release the
\* system and go to the prompt, otherwise take camera 0, whose nodes are
\* whatever the attached device reports
Enumerate ==
    /\ pc = "enumerate"
    /\ IF num_cameras = 0
       THEN /\ pc' = "no_camera"
            /\ UNCHANGED <<node, cam>>
       ELSE /\ pc' = "cam_init"
            /\ \E lim \in CameraLimits, ea \in {"RW", "RO"}, et \in AccessModes,
                  am \in {"RW", "RO"}, auto \in {"Continuous", "Off"},
                  t0 \in {1000, 20000} :
                 /\ node' = [ExposureAuto |-> ea, ExposureTime |-> et,
                             AcquisitionMode |-> am,
                             exp_min |-> lim[1], exp_max |-> lim[2]]
                 /\ cam' = [cam EXCEPT !.ExposureAuto = auto,
                                       !.ExposureTime = Max2(lim[1], Min2(lim[2], t0))]
    /\ UNCHANGED <<args, files, num_cameras, i, timeout, exposure,
                   acq_result, run_result, exit_status, faults, obs>>

\* lines 400-402 and 480-481: input() returns and main() returns False, or
\* input() raises EOFError; the process ends with status 1 either way
NoCameraExit ==
    /\ pc = "no_camera"
    /\ pc' = "exit"
    /\ run_result' = FALSE
    /\ exit_status' = 1
    /\ UNCHANGED <<args, files, num_cameras, node, cam, i, timeout, exposure,
                   acq_result, faults, obs>>


\* ------------------------------------------------------ run_single_camera
\* effective bounds, lines 136-138
exp_min == Max2(node.exp_min, args.bounds[1])
exp_max == Min2(node.exp_max, args.bounds[2])

\* line 287: the loop runs the body for the next index or leaves
LoopHead(idx) == IF idx < NUM_IMAGES THEN "configure" ELSE "end_acq"

\* lines 353-356: reset_exposure is called whatever acquire_images returned
AfterAcquire_skip(res) == IF res THEN "reset" ELSE "deinit"
AfterAcquire(res) == "reset"

\* lines 321-323: the handler records the failure and the loop goes on
AfterFrameError_abort(idx) == "end_acq"
AfterFrameError(idx) == LoopHead(idx + 1)

\* lines 477-481: create_HDR runs only if main() returned True
FusionGate(res) == res

\* line 148
ExposureTimeToSet_noclamp(mx, e) == e
ExposureTimeToSet(mx, e) == Min2(mx, e)

\* lines 345-350 and 363-365: cam.Init() and print_device_info()
CamInit ==
    /\ pc = "cam_init"
    /\ \/ /\ cam' = [cam EXCEPT !.initialized = TRUE]
          /\ run_result' = TRUE
          /\ pc' = "acquire"
          /\ UNCHANGED faults
       \/ \* print_device_info catches an exception and returns False
          /\ MayRaise
          /\ faults' = faults + 1
          /\ cam' = [cam EXCEPT !.initialized = TRUE]
          /\ run_result' = FALSE
          /\ pc' = "acquire"
       \/ \* cam.Init() raises: run_single_camera returns False
          /\ MayRaise
          /\ faults' = faults + 1
          /\ run_result' = FALSE
          /\ pc' = "release_system"
          /\ UNCHANGED cam
    /\ UNCHANGED <<args, files, num_cameras, node, i, timeout, exposure,
                   acq_result, exit_status, obs>>

\* acquire_images, lines 243-255: continuous mode and BeginAcquisition
AcquireBegin ==
    /\ pc = "acquire"
    /\ \/ /\ node.AcquisitionMode # "RW"
          /\ acq_result' = FALSE
          /\ run_result' = FALSE
          /\ pc' = AfterAcquire(FALSE)
          /\ UNCHANGED <<cam, faults>>
       \/ /\ node.AcquisitionMode = "RW"
          /\ acq_result' = TRUE
          /\ cam' = [cam EXCEPT !.acquiring = TRUE]
          /\ pc' = "acq_timeout"
          /\ UNCHANGED <<run_result, faults>>
       \/ \* SetValue or BeginAcquisition raises: handler of lines 328-330
          /\ node.AcquisitionMode = "RW"
          /\ MayRaise
          /\ faults' = faults + 1
          /\ acq_result' = FALSE
          /\ run_result' = FALSE
          /\ pc' = AfterAcquire(FALSE)
          /\ UNCHANGED cam
    /\ UNCHANGED <<args, files, num_cameras, node, i, timeout, exposure,
                   exit_status, obs>>

\* acquire_images, lines 259-285: serial number, timeout, image processor
AcquireTimeout ==
    /\ pc = "acq_timeout"
    /\ \/ /\ node.ExposureTime \in {"RW", "RO"}
          /\ timeout' = (cam.ExposureTime \div 1000) + 1000
          /\ i' = 0
          /\ pc' = LoopHead(0)
          /\ UNCHANGED <<acq_result, run_result, faults>>
       \/ \* line 273: return False
          /\ node.ExposureTime \notin {"RW", "RO"}
          /\ acq_result' = FALSE
          /\ run_result' = FALSE
          /\ pc' = AfterAcquire(FALSE)
          /\ UNCHANGED <<timeout, i, faults>>
       \/ \* a node read raises: handler of lines 328-330
          /\ MayRaise
          /\ faults' = faults + 1
          /\ acq_result' = FALSE
          /\ run_result' = FALSE
          /\ pc' = AfterAcquire(FALSE)
          /\ UNCHANGED <<timeout, i>>
    /\ UNCHANGED <<args, files, num_cameras, node, cam, exposure,
                   exit_status, obs>>

\* configure_exposure(cam, (i + 1) / NUM_IMAGES), lines 87-158 and 293
ConfigureExposure ==
    /\ pc = "configure"
    /\ attempted' = attempted \cup {i}
    /\ requests' = 0
    /\ pc' = "get_next_image"
    /\ \/ \* GainAuto / Gain raise before ExposureAuto is touched
          /\ MayRaise
          /\ faults' = faults + 1
          /\ exposure' = PyFalse
          /\ UNCHANGED <<cam, set_log>>
       \/ \* line 113-115
          /\ node.ExposureAuto # "RW"
          /\ cam' = [cam EXCEPT !.GainAuto = "Off"]
          /\ exposure' = PyFalse
          /\ UNCHANGED <<faults, set_log>>
       \/ \* lines 132-134
          /\ node.ExposureAuto = "RW"
          /\ node.ExposureTime # "RW"
          /\ cam' = [cam EXCEPT !.GainAuto = "Off", !.ExposureAuto = "Off"]
          /\ exposure' = PyFalse
          /\ UNCHANGED <<faults, set_log>>
       \/ \* lines 136-152; x = (i + 1) / NUM_IMAGES <= 1 takes the log branch
          /\ node.ExposureAuto = "RW"
          /\ node.ExposureTime = "RW"
          /\ \E e \in (IF i + 1 <= NUM_IMAGES
                       THEN IntLogMap(i + 1, NUM_IMAGES, exp_min, exp_max)
                       ELSE {(i + 1) \div NUM_IMAGES}) :
               LET v == ExposureTimeToSet(node.exp_max, e)
               IN  /\ set_log' = (i :> [computed |-> e, value |-> v]) @@ set_log
                   /\ \/ /\ cam' = [cam EXCEPT !.GainAuto = "Off",
                                               !.ExposureAuto = "Off",
                                               !.ExposureTime = v]
                         /\ exposure' = PyInt(v)
                         /\ UNCHANGED faults
                      \/ \* ExposureTime.SetValue raises: lines 154-158
                         /\ MayRaise
                         /\ faults' = faults + 1
                         /\ cam' = [cam EXCEPT !.GainAuto = "Off",
                                               !.ExposureAuto = "Off"]
                         /\ exposure' = PyFalse
    /\ UNCHANGED <<args, files, num_cameras, node, i, timeout, acq_result,
                   run_result, exit_status, fs_ops, unreleased, saved, failed,
                   phases, reset_status, fusion_input>>


\* lines 294-296: three GetNextImage(timeout) calls bound to the same name;
\* a call that raises (a timeout included) goes to the handler of line 321
GetNextImage ==
    /\ pc = "get_next_image"
    /\ \/ /\ requests' = requests + 1
          /\ unreleased' = unreleased + 1
          /\ pc' = IF requests + 1 = 3 THEN "save" ELSE "get_next_image"
          /\ UNCHANGED <<i, acq_result, faults, failed>>
       \/ /\ MayRaise
          /\ faults' = faults + 1
          /\ requests' = requests + 1
          /\ acq_result' = FALSE
          /\ failed' = failed \cup {i}
          /\ i' = i + 1
          /\ pc' = AfterFrameError(i)
          /\ UNCHANGED unreleased
    /\ UNCHANGED <<args, files, num_cameras, node, cam, timeout, exposure,
                   run_result, exit_status, fs_ops, set_log, saved, attempted,
                   phases, reset_status, fusion_input>>

\* lines 298-316: drop an incomplete image, otherwise convert and save it
SaveImage ==
    /\ pc = "save"
    /\ \/ \* IsIncomplete()
          /\ pc' = "release"
          /\ UNCHANGED <<files, fs_ops, saved, i, acq_result, faults>>
       \/ /\ files' = (FileName(exposure) :> [kind |-> "frame", idx |-> i]) @@ files
          /\ fs_ops' = fs_ops \cup {[op |-> "write", name |-> FileName(exposure)]}
          /\ saved' = (i :> [name |-> FileName(exposure),
                             applied |-> cam.ExposureTime]) @@ saved
          /\ pc' = "release"
          /\ UNCHANGED <<i, acq_result, faults>>
       \/ \* Convert or Save raises: handler of line 321, Release is skipped
          /\ MayRaise
          /\ faults' = faults + 1
          /\ acq_result' = FALSE
          /\ i' = i + 1
          /\ pc' = AfterFrameError(i)
          /\ UNCHANGED <<files, fs_ops, saved>>
    /\ UNCHANGED <<args, num_cameras, node, cam, timeout, exposure, run_result,
                   exit_status, set_log, requests, unreleased, attempted,
                   failed, phases, reset_status, fusion_input>>

\* line 319: image_result.Release() releases the third image
ReleaseImage ==
    /\ pc = "release"
    /\ i' = i + 1
    /\ \/ /\ unreleased' = unreleased - 1
          /\ pc' = LoopHead(i + 1)
          /\ UNCHANGED <<acq_result, faults>>
       \/ /\ MayRaise
          /\ faults' = faults + 1
          /\ acq_result' = FALSE
          /\ pc' = AfterFrameError(i)
          /\ UNCHANGED unreleased
    /\ UNCHANGED <<args, files, num_cameras, node, cam, timeout, exposure,
                   run_result, exit_status, fs_ops, set_log, requests, saved,
                   attempted, failed, phases, reset_status, fusion_input>>

\* lines 325-332 and 353: EndAcquisition, return result
EndAcquisition ==
    /\ pc = "end_acq"
    /\ phases' = phases \cup {"end_acq"}
    /\ \/ /\ cam' = [cam EXCEPT !.acquiring = FALSE]
          /\ run_result' = (run_result /\ acq_result)
          /\ pc' = AfterAcquire(acq_result)
          /\ UNCHANGED <<acq_result, faults>>
       \/ \* EndAcquisition raises: handler of lines 328-330
          /\ MayRaise
          /\ faults' = faults + 1
          /\ acq_result' = FALSE
          /\ run_result' = FALSE
          /\ pc' = AfterAcquire(FALSE)
          /\ UNCHANGED cam
    /\ UNCHANGED <<args, files, num_cameras, node, i, timeout, exposure,
                   exit_status, fs_ops, set_log, requests, unreleased, saved,
                   attempted, failed, reset_status, fusion_input>>

\* reset_exposure, lines 170-191 and 356
ResetExposure ==
    /\ pc = "reset"
    /\ phases' = phases \cup {"reset"}
    /\ pc' = "deinit"
    /\ \/ /\ node.ExposureAuto # "RW"
          /\ reset_status' = "not_writable"
          /\ run_result' = FALSE
          /\ UNCHANGED <<cam, faults>>
       \/ /\ node.ExposureAuto = "RW"
          /\ cam' = [cam EXCEPT !.ExposureAuto = "Continuous"]
          /\ reset_status' = "set"
          /\ UNCHANGED <<run_result, faults>>
       \/ /\ MayRaise
          /\ faults' = faults + 1
          /\ reset_status' = "raised"
          /\ run_result' = FALSE
          /\ UNCHANGED cam
    /\ UNCHANGED <<args, files, num_cameras, node, i, timeout, exposure,
                   acq_result, exit_status, fs_ops, set_log, requests,
                   unreleased, saved, attempted, failed, fusion_input>>

\* lines 358-365: cam.DeInit()
DeInit ==
    /\ pc = "deinit"
    /\ phases' = phases \cup {"deinit"}
    /\ pc' = "release_system"
    /\ \/ /\ cam' = [cam EXCEPT !.initialized = FALSE]
          /\ UNCHANGED <<run_result, faults>>
       \/ /\ MayRaise
          /\ faults' = faults + 1
          /\ run_result' = FALSE
          /\ UNCHANGED cam
    /\ UNCHANGED <<args, files, num_cameras, node, i, timeout, exposure,
                   acq_result, exit_status, fs_ops, set_log, requests,
                   unreleased, saved, attempted, failed, reset_status,
                   fusion_input>>

\* lines 406-420 and 477-481: main() returns result; the fusion phase
\* follows only a True result, otherwise sys.exit(1)
ReleaseSystem ==
    /\ pc = "release_system"
    /\ IF FusionGate(run_result)
       THEN pc' = "fusion" /\ UNCHANGED exit_status
       ELSE pc' = "exit" /\ exit_status' = 1
    /\ UNCHANGED <<args, files, num_cameras, node, cam, i, timeout, exposure,
                   acq_result, run_result, faults, obs>>

OutputNames ==
    { <<"h", "d", "r", "_", "i", "m", "a", "g", "e", ".", "h", "d", "r">>,
      <<"l", "d", "r", "_", "i", "m", "a", "g", "e", ".", "j", "p", "g">>,
      <<"f", "u", "s", "i", "o", "n", ".", "j", "p", "g">> }

\* create_HDR, lines 422-463 and 479: read every file of the directory,
\* parse the exposure out of each name, merge, write the three outputs.
\* A name that does not parse raises out of line 427: status 1, no output.
CreateHDR ==
    /\ pc = "fusion"
    /\ phases' = phases \cup {"fusion"}
    /\ pc' = "exit"
    /\ fusion_input' = {[name |-> n, content |-> files[n],
                         time |-> ParseExposure(n)] : n \in DOMAIN files}
    /\ IF \A n \in DOMAIN files : ParseExposure(n).ok
       THEN /\ files' = [n \in OutputNames |-> [kind |-> "output", idx |-> 0]] @@ files
            /\ fs_ops' = fs_ops \cup {[op |-> "write", name |-> n] : n \in OutputNames}
            /\ exit_status' = 0
       ELSE /\ exit_status' = 1
            /\ UNCHANGED <<files, fs_ops>>
    /\ UNCHANGED <<args, num_cameras, node, cam, i, timeout, exposure,
                   acq_result, run_result, faults, set_log, requests,
                   unreleased, saved, attempted, failed, reset_status>>

Next ==
    \/ MkOutputDir
    \/ WipeDirectory
    \/ Enumerate
    \/ NoCameraExit
    \/ CamInit
    \/ AcquireBegin
    \/ AcquireTimeout
    \/ ConfigureExposure
    \/ GetNextImage
    \/ SaveImage
    \/ ReleaseImage
    \/ EndAcquisition
    \/ ResetExposure
    \/ DeInit
    \/ ReleaseSystem
    \/ CreateHDR

Spec == Init /\ [][Next]_vars



\* ------------------------------------------------------------- properties
Indices == 0..(NUM_IMAGES - 1)

\* C1: when the enumeration reports zero cameras the process exits with
\* status 1 and has performed no file creation, modification or deletion
\* in images/<dirname> over the whole run.
C1_NoCameraNoWrites ==
    (pc = "exit" /\ num_cameras = 0) => (exit_status = 1 /\ fs_ops = {})

\* C2: for every saved frame, the exposure parsed back from its file name
\* by create_HDR equals the exposure time in effect on the sensor for that
\* frame, also when configure_exposure aborted or caught an exception.
C2_FilenameMatchesApplied ==
    \A idx \in DOMAIN saved :
        ParseExposure(saved[idx].name) = [ok |-> TRUE, val |-> saved[idx].applied]

\* C3: every exposure time configure_exposure passes to
\* ExposureTime.SetValue is at most the hardware-reported maximum.
C3_AppliedWithinHardwareMax ==
    \A idx \in DOMAIN set_log : set_log[idx].value <= node.exp_max

\* C3 witness: a computed exposure above the hardware maximum was clamped
C3_ClampedWitness ==
    \E idx \in DOMAIN set_log :
        /\ set_log[idx].computed > node.exp_max
        /\ set_log[idx].value = node.exp_max

\* C4: with effective bounds exp_min < exp_max, the integer exposures
\* computed for i = 0..N-1 lie in [exp_min, exp_max], strictly increase
\* with i, end at exp_max, and are 464, 2154, 10000 for N = 3, 100, 10000.
C4_ExposureSeries ==
    (set_log # NoFiles /\ exp_min < exp_max) =>
        \A idx \in DOMAIN set_log :
            LET e == set_log[idx].computed
            IN  /\ exp_min <= e /\ e <= exp_max
                /\ \A j \in DOMAIN set_log : j < idx => set_log[j].computed < e
                /\ idx = NUM_IMAGES - 1 => e = exp_max
                /\ (NUM_IMAGES = 3 /\ exp_min = 100 /\ exp_max = 10000)
                      => e = <<464, 2154, 10000>>[idx + 1]

\* C5: whenever create_HDR runs, every frame the capture loop saved is
\* still present as its own input (none overwritten by a later frame of
\* the same name) and no file from outside the session is read.
C5_FusionInputComplete ==
    "fusion" \in phases =>
        /\ \A idx \in DOMAIN saved :
              \E f \in fusion_input :
                  /\ f.name = saved[idx].name
                  /\ f.content = [kind |-> "frame", idx |-> idx]
        /\ \A f \in fusion_input : f.content.kind = "frame"

\* C6 as stated: once the camera is deinitialized, automatic exposure has
\* been set back on, whatever acquire_images did.
C6_AutoExposureRestored ==
    "deinit" \in phases => cam.ExposureAuto = "Continuous"

\* C6 amended: reset_exposure is called before DeInit whatever
\* acquire_images returned; it leaves ExposureAuto on Continuous whenever
\* the ExposureAuto node is writable and the call does not raise.
C6_ResetAttemptedBeforeDeInit ==
    (pc = "deinit" \/ "deinit" \in phases) =>
        /\ "reset" \in phases
        /\ reset_status # "none"
        /\ (node.ExposureAuto = "RW" /\ reset_status # "raised")
              => (reset_status = "set" /\ cam.ExposureAuto = "Continuous")

\* C6 witness: acquire_images failed after the exposure had been set
\* manually, and automatic exposure is back on at DeInit
C6_ResetAfterFailureWitness ==
    /\ "deinit" \in phases
    /\ ~acq_result
    /\ set_log # NoFiles
    /\ reset_status = "set"
    /\ cam.ExposureAuto = "Continuous"

\* C7: one image per index is requested, and no image obtained from the
\* device is unreleased when the next one is requested.
C7_OneRequestPerIndex ==
    /\ requests <= 1
    /\ pc = "get_next_image" => unreleased = 0

\* C8: while a frame is awaited the timeout is the exposure time applied
\* for that frame / 1000 + 1000 ms, hence not shorter than that exposure.
C8_TimeoutFromCurrentExposure ==
    pc = "get_next_image" =>
        /\ timeout = (cam.ExposureTime \div 1000) + 1000
        /\ timeout * 1000 >= cam.ExposureTime

\* C9 as stated: after a next-frame call raised for frame i, the frame is
\* skipped, the remaining indices are attempted, and exposure reset,
\* DeInit and the fusion phase all still run.
C9_LaterPhasesStillRun ==
    (pc = "exit" /\ failed # {}) =>
        /\ \A idx \in failed : idx \notin DOMAIN saved
        /\ attempted = Indices
        /\ {"reset", "deinit", "fusion"} \subseteq phases

\* C9 amended: after a next-frame call raised for frame i, the frame is
\* not saved, every remaining index is attempted, EndAcquisition,
\* reset_exposure and DeInit are still called, the fusion phase does not
\* run and the process exits with status 1.
C9_FrameErrorContained ==
    (pc = "exit" /\ failed # {}) =>
        /\ \A idx \in failed : idx \notin DOMAIN saved
        /\ attempted = Indices
        /\ {"end_acq", "reset", "deinit"} \subseteq phases
        /\ "fusion" \notin phases
        /\ exit_status = 1

\* C9 witness: frame 0 timed out, a later frame was still captured and
\* saved, and the run ended
C9_LaterFrameSavedWitness ==
    /\ pc = "exit"
    /\ 0 \in failed
    /\ \E idx \in DOMAIN saved : idx > 0

\* C10: the camera is not acquiring when reset_exposure and DeInit run or
\* when the fusion phase begins.
C10_NotAcquiringAfterAcquire ==
    pc \in {"reset", "deinit", "release_system", "fusion"} => ~cam.acquiring

====
